---- MODULE Spec2Model ----
(***************************************************************************)
(* Vaccine-dose delivery state machine of vivarium_gates_shigella_vaccine *)
(* (components/vaccine_coverage.py, ShigellaCoverage), specification Spec, *)
(* and the vaccine's effect on shigellosis incidence                       *)
(* (components/vaccine_effect.py, ShigellaEffect), specifications          *)
(* EffectSetupSpec and ProtectionSpec; the observer of the doses           *)
(* (components/observer.py) rides on Spec, and sample_beta                 *)
(* (components/utilities.py) has the specification SampleBetaSpec.         *)
(*                                                                         *)
(* Ages are held in 1/146100 of a year, so that to_years(days) =           *)
(* days / 365.25 is the exact integer 400 * days and the clip factors 0.99 *)
(* and 1.01 stay integral.  Probabilities and uniform draws are exact      *)
(* rationals [n, d]; a zero denominator is the inf (n > 0) or nan (n = 0)  *)
(* pandas produces when a series is divided by a zero coverage.            *)
(***************************************************************************)
EXTENDS Integers, Sequences, FiniteSets, TLC

VARIABLES
    phase,              \* "constructed" | "ready" | "error": where setup got to
    schedule,           \* builder.configuration.shigellosis_vaccine.schedule
    step_size,          \* the clock's step size, in days (event.step_size)
    data,               \* the artifact's four shigella coverage covariates
    catchup_proportion, \* self.catchup_proportion
    coverage,           \* self.coverage: dose -> (year -> probability)
    dose_age_ranges,    \* self.dose_age_ranges: dose -> <<age_min, age_max>>
    dose_ages,          \* self.dose_ages: simulant -> (dose -> target age)
    pop,                \* the population table: simulant -> row
    clock,              \* the simulation clock, in days since the start
    counts,             \* self.counts: accumulated eligible_for_<dose>_dose_count
    dose_events,        \* history: simulant -> sequence of [from, to] dose() hits
    mask_hits,          \* history: simulant -> (dose -> steps with a true age mask)
    scenario,           \* builder.configuration.shigellosis_vaccine.scenario
    input_draw_number,  \* builder.configuration.input_data.input_draw_number
    effect_phase,       \* "constructed" | "ready" | "error": where ShigellaEffect.setup got to
    returned,           \* what the last call of get_configuration returned or raised
    effect,             \* the attributes of ShigellaEffect assigned so far
    beta_calls,         \* history: the (mu, sigma) of each sample_beta call of ShigellaEffect
    doses_for_protection, \* self.doses_for_protection: simulant -> 1 or 2
    modified,           \* the incidence-rate modifier's value for the current state, if computed
    observer_counts,    \* ShigellaVaccineObserver.counts: dose -> doses counted
    beta_args,          \* the (seed, mu, sigma) a direct call of sample_beta is given
    beta_result         \* what that call returned or raised

\* the state of ShigellaCoverage without the population table and the clock
coverage_vars == <<phase, schedule, step_size, data, catchup_proportion, coverage,
                   dose_age_ranges, dose_ages, counts, dose_events, mask_hits,
                   observer_counts>>

\* the state of ShigellaEffect
effect_vars == <<scenario, input_draw_number, effect_phase, returned, effect,
                 beta_calls, doses_for_protection, modified>>

\* the call of sample_beta looked at on its own
utility_vars == <<beta_args, beta_result>>

vars == <<phase, schedule, step_size, data, catchup_proportion, coverage,
          dose_age_ranges, dose_ages, pop, clock, counts, dose_events, mask_hits,
          scenario, input_draw_number, effect_phase, returned, effect,
          beta_calls, doses_for_protection, modified,
          observer_counts, beta_args, beta_result>>

-----------------------------------------------------------------------------
(* Bounds of the model. *)

MaxSimulants == 1
MaxSteps == 2

-----------------------------------------------------------------------------
(* globals.py *)

SCHEDULES == [NONE |-> "none", SIX_NINE |-> "6_9", NINE_TWELVE |-> "9_12",
              NINE_TWELVE_FIFTEEN |-> "9_12_15"]

DOSES == [NONE |-> "none", FIRST |-> "first", SECOND |-> "second", THIRD |-> "third",
          CATCHUP |-> "catchup",
          LATE_CATCHUP_MISSED_1 |-> "late_catchup_missed_1",
          LATE_CATCHUP_MISSED_2 |-> "late_catchup_missed_2",
          LATE_CATCHUP_MISSED_1_2 |-> "late_catchup_missed_1_2"]

VACCINE_DOSES == {DOSES.FIRST, DOSES.SECOND, DOSES.THIRD, DOSES.CATCHUP,
                  DOSES.LATE_CATCHUP_MISSED_1, DOSES.LATE_CATCHUP_MISSED_2,
                  DOSES.LATE_CATCHUP_MISSED_1_2}

COVARIATE_SHIGELLA_COVERAGES == {"6mo", "9mo", "12mo", "15mo"}

NaT == -1

-----------------------------------------------------------------------------
(* Exact rational arithmetic standing for the float series of the code. *)

Rat(n, d) == [n |-> n, d |-> d]

\* a / b; b = 0 gives the zero denominator of inf or nan
Div(a, b) == [n |-> a.n * b.d, d |-> a.d * b.n]

\* a < b; every comparison with nan is false, everything finite is below inf
Less(a, b) == a.n * b.d < b.n * a.d

\* a = b as numbers (nan equals nothing)
Same(a, b) == /\ (a.d # 0 \/ a.n # 0) /\ (b.d # 0 \/ b.n # 0)
              /\ a.n * b.d = b.n * a.d

InUnitInterval(p) == p.d > 0 /\ 0 <= p.n /\ p.n <= p.d

\* a * b
Mul(a, b) == [n |-> a.n * b.n, d |-> a.d * b.d]

-----------------------------------------------------------------------------
(* Inputs: configuration, artifact data, random draws. *)

Years == {2025, 2026}

\* the schedules a configuration may name; "3_6" is not one setup knows
ScheduleNames == {SCHEDULES.NONE, SCHEDULES.SIX_NINE, SCHEDULES.NINE_TWELVE,
                  SCHEDULES.NINE_TWELVE_FIFTEEN, "3_6"}

StepSizes == {90, 270}

EntryAges == {195, 500}

\* coverage covariates by year.  The first resolves, in 9_12, the second-dose
\* coverage 0.4 / 0.6 for 2025 and 0.6 / 0.5 = 1.2 for 2026; the second is
\* what load_and_write_vaccine_data writes for dtp3 = 0.9, measles1 = 0.8,
\* measles2 = 0.5
CoverageData ==
    { [k \in COVARIATE_SHIGELLA_COVERAGES |->
          [y \in Years |->
              IF y = 2025
              THEN CASE k = "6mo" -> Rat(3, 10) [] k = "9mo" -> Rat(6, 10)
                     [] k = "12mo" -> Rat(4, 10) [] k = "15mo" -> Rat(3, 10)
              ELSE CASE k = "6mo" -> Rat(4, 10) [] k = "9mo" -> Rat(5, 10)
                     [] k = "12mo" -> Rat(6, 10) [] k = "15mo" -> Rat(3, 10)]],
      [k \in COVARIATE_SHIGELLA_COVERAGES |->
          [y \in Years |->
              CASE k = "6mo" -> Rat(36, 100) [] k = "9mo" -> Rat(8, 10)
                [] k = "12mo" -> Rat(2, 10) [] k = "15mo" -> Rat(5, 10)]] }

\* GBD covariate values the artifact builder may load for a location
CovariateValues == {Rat(5, 10), Rat(8, 10), Rat(9, 10), Rat(1, 1)}

\* data/builder.py: the four shigella covariates written from the dtp3,
\* measles1 and measles2 coverages (the same value for every year here)
load_and_write_vaccine_data(dtp3_coverage, measles1_coverage, measles2_coverage) ==
    [k \in COVARIATE_SHIGELLA_COVERAGES |->
        [y \in Years |->
            CASE k = "6mo" -> Mul(Rat(5, 10), Mul(dtp3_coverage, measles1_coverage))
              [] k = "9mo" -> measles1_coverage
              [] k = "12mo" -> Mul(Rat(5, 10), Mul(measles1_coverage, measles2_coverage))
              [] k = "15mo" -> measles2_coverage]]

\* values sample_beta may return for the catch-up proportion
BetaSamples == {Rat(1, 3)}

\* uniform draws of the dose stream: below every coverage of CoverageData, or
\* above every one that is a probability
Accept == Rat(0, 1)
Reject == Rat(99, 100)

\* one simulant's draws of a step, one per dose key, written by the stages of
\* the listener: <<first, second and catchup, third and the late catch-ups>>
StageDraws(a, b, c) ==
    [d \in VACCINE_DOSES |->
        IF d = DOSES.FIRST THEN a
        ELSE IF d \in {DOSES.SECOND, DOSES.CATCHUP} THEN b
        ELSE c]

DoseDraws ==
    { StageDraws(Accept, Accept, Accept),
      StageDraws(Reject, Reject, Reject),
      StageDraws(Accept, Reject, Accept),
      StageDraws(Reject, Accept, Accept),
      StageDraws(Reject, Reject, Accept) }

\* uniform draws of the dose-age stream, named by their normal quantile in
\* standard deviations: the median, and the far tails that get clipped
AgeDraws ==
    { [d \in VACCINE_DOSES |-> 0],
      [d \in VACCINE_DOSES |-> 4],
      [d \in VACCINE_DOSES |-> -4] }

-----------------------------------------------------------------------------
(* components/utilities.py *)

\* duration / days_in_year with days_in_year = 365.25 = 36525/100, in 1/146100
\* of a year (the quotient is exact: one day is 400 units)
to_years(duration) == duration * ((146100 * 100) \div 36525)

\* a - b
Sub(a, b) == [n |-> a.n * b.d - b.n * a.d, d |-> a.d * b.d]

RECURSIVE GCD(_, _)
GCD(a, b) == IF b = 0 THEN a ELSE GCD(b, a % b)

\* the same number in lowest terms, with a positive denominator
Norm(r) ==
    IF r.d = 0 THEN r
    ELSE LET an == IF r.n < 0 THEN -r.n ELSE r.n
             ad == IF r.d < 0 THEN -r.d ELSE r.d
             g == GCD(an, ad)
             sign == IF r.d < 0 THEN -1 ELSE 1
         IN [n |-> sign * (r.n \div g), d |-> ad \div g]

\* scipy.stats.beta.rvs refuses shape parameters that are not both positive
\* (ValueError: domain error in arguments)
rvs_raises(alpha, beta) == ~(alpha.n > 0 /\ beta.n > 0)

\* sample_beta with sigma where the code has sigma ** 2
sample_beta_unsquared(seed, mu, sigma) ==
    IF sigma.n = 0
    THEN [called |-> TRUE, raised |-> TRUE, alpha |-> Rat(0, 0), beta |-> Rat(0, 0)]
    ELSE LET one == Rat(1, 1)
             common == Norm(Sub(Norm(Div(Mul(mu, Sub(one, mu)), sigma)), one))
             alpha == Norm(Mul(mu, common))
             beta == Norm(Mul(Sub(one, mu), common))
         IN [called |-> TRUE, raised |-> rvs_raises(alpha, beta),
             alpha |-> alpha, beta |-> beta]

\* lines 31-51, up to the sample.  The float division by sigma ** 2 = 0
\* raises ZeroDivisionError; alpha and beta are computed as written and
\* handed to scipy.stats.beta.rvs, with nothing checked in between
sample_beta(seed, mu, sigma) ==
    IF sigma.n = 0
    THEN [called |-> TRUE, raised |-> TRUE, alpha |-> Rat(0, 0), beta |-> Rat(0, 0)]
    ELSE LET one == Rat(1, 1)
             common == Norm(Sub(Norm(Div(Mul(mu, Sub(one, mu)), Mul(sigma, sigma))), one))
             alpha == Norm(Mul(mu, common))
             beta == Norm(Mul(Sub(one, mu), common))
         IN [called |-> TRUE, raised |-> rvs_raises(alpha, beta),
             alpha |-> alpha, beta |-> beta]


-----------------------------------------------------------------------------
(* ShigellaCoverage.setup and what it calls *)

\* elementwise series arithmetic, aligned on the year index
SeriesDiv(a, b) == [y \in Years |-> Div(a[y], b[y])]
ConstSeries(x) == [y \in Years |-> x]

\* the doses get_dose_coverages resolves for a schedule
CoverageDoses(sched) ==
    CASE sched = SCHEDULES.SIX_NINE -> {DOSES.FIRST, DOSES.SECOND, DOSES.CATCHUP}
      [] sched = SCHEDULES.NINE_TWELVE -> {DOSES.FIRST, DOSES.SECOND, DOSES.CATCHUP}
      [] sched = SCHEDULES.NINE_TWELVE_FIFTEEN -> VACCINE_DOSES
      [] OTHER -> {}

\* lines 165-173
six_nine_coverages(cov, catchup) ==
    LET first == cov["6mo"]
        second == cov["9mo"]
    IN [d \in CoverageDoses(SCHEDULES.SIX_NINE) |->
           CASE d = DOSES.FIRST -> first
             [] d = DOSES.SECOND -> second
             [] d = DOSES.CATCHUP -> second]

\* nine_twelve_coverages with the second dose left unconditional, as 6_9 has it
nine_twelve_coverages_unconditional(cov, catchup) ==
    LET first == cov["9mo"]
        second == cov["12mo"]
    IN [d \in CoverageDoses(SCHEDULES.NINE_TWELVE) |->
           CASE d = DOSES.FIRST -> first
             [] d = DOSES.SECOND -> second
             [] d = DOSES.CATCHUP -> ConstSeries(catchup)]

\* lines 175-180
nine_twelve_coverages(cov, catchup) ==
    LET first == cov["9mo"]
        second == cov["12mo"]
    IN [d \in CoverageDoses(SCHEDULES.NINE_TWELVE) |->
           CASE d = DOSES.FIRST -> first
             [] d = DOSES.SECOND -> SeriesDiv(second, first)
             [] d = DOSES.CATCHUP -> ConstSeries(catchup)]

\* nine_twelve_fifteen_coverages with the third dose divided by the resolved
\* (conditional) second-dose coverage instead of the 12-month covariate
nine_twelve_fifteen_coverages_conditional_second(cov, catchup) ==
    LET first == cov["9mo"]
        second == SeriesDiv(cov["12mo"], first)
        third == cov["15mo"]
    IN [d \in CoverageDoses(SCHEDULES.NINE_TWELVE_FIFTEEN) |->
           CASE d = DOSES.FIRST -> first
             [] d = DOSES.SECOND -> second
             [] d = DOSES.THIRD -> SeriesDiv(third, second)
             [] d = DOSES.CATCHUP -> ConstSeries(catchup)
             [] d = DOSES.LATE_CATCHUP_MISSED_1 -> ConstSeries(catchup)
             [] d = DOSES.LATE_CATCHUP_MISSED_2 -> ConstSeries(catchup)
             [] d = DOSES.LATE_CATCHUP_MISSED_1_2 -> ConstSeries(catchup)]

\* nine_twelve_fifteen_coverages with the late catch-ups read from the
\* 12-month covariate, year by year, instead of the sampled scalar
nine_twelve_fifteen_coverages_late_from_covariate(cov, catchup) ==
    LET first == cov["9mo"]
        second == cov["12mo"]
        third == cov["15mo"]
    IN [d \in CoverageDoses(SCHEDULES.NINE_TWELVE_FIFTEEN) |->
           CASE d = DOSES.FIRST -> first
             [] d = DOSES.SECOND -> SeriesDiv(second, first)
             [] d = DOSES.THIRD -> SeriesDiv(third, second)
             [] d = DOSES.CATCHUP -> ConstSeries(catchup)
             [] d = DOSES.LATE_CATCHUP_MISSED_1 -> second
             [] d = DOSES.LATE_CATCHUP_MISSED_2 -> second
             [] d = DOSES.LATE_CATCHUP_MISSED_1_2 -> second]

\* lines 182-193
nine_twelve_fifteen_coverages(cov, catchup) ==
    LET first == cov["9mo"]
        second == cov["12mo"]
        third == cov["15mo"]
    IN [d \in CoverageDoses(SCHEDULES.NINE_TWELVE_FIFTEEN) |->
           CASE d = DOSES.FIRST -> first
             [] d = DOSES.SECOND -> SeriesDiv(second, first)
             [] d = DOSES.THIRD -> SeriesDiv(third, second)
             [] d = DOSES.CATCHUP -> ConstSeries(catchup)
             [] d = DOSES.LATE_CATCHUP_MISSED_1 -> ConstSeries(catchup)
             [] d = DOSES.LATE_CATCHUP_MISSED_2 -> ConstSeries(catchup)
             [] d = DOSES.LATE_CATCHUP_MISSED_1_2 -> ConstSeries(catchup)]

\* raised: the ValueError of the final else; dose_coverage: the dict returned
get_dose_coverages(sched, cov, catchup) ==
    IF sched = SCHEDULES.NONE
    THEN [raised |-> FALSE, dose_coverage |-> <<>>]
    ELSE IF sched = SCHEDULES.SIX_NINE
    THEN [raised |-> FALSE, dose_coverage |-> six_nine_coverages(cov, catchup)]
    ELSE IF sched = SCHEDULES.NINE_TWELVE
    THEN [raised |-> FALSE, dose_coverage |-> nine_twelve_coverages(cov, catchup)]
    ELSE IF sched = SCHEDULES.NINE_TWELVE_FIFTEEN
    THEN [raised |-> FALSE, dose_coverage |-> nine_twelve_fifteen_coverages(cov, catchup)]
    ELSE [raised |-> TRUE, dose_coverage |-> <<>>]

get_age_ranges(sched) ==
    LET six == <<to_years(180), to_years(270)>>
        nine == <<to_years(270), to_years(300)>>
        twelve == <<to_years(360), to_years(390)>>
        fifteen == <<to_years(450), to_years(480)>>
    IN CASE sched = SCHEDULES.NONE -> <<>>
         [] sched = SCHEDULES.SIX_NINE ->
                [d \in {DOSES.FIRST, DOSES.SECOND} |->
                    IF d = DOSES.FIRST THEN six ELSE nine]
         [] sched = SCHEDULES.NINE_TWELVE ->
                [d \in {DOSES.FIRST, DOSES.SECOND} |->
                    IF d = DOSES.FIRST THEN nine ELSE twelve]
         [] sched = SCHEDULES.NINE_TWELVE_FIFTEEN ->
                [d \in {DOSES.FIRST, DOSES.SECOND, DOSES.THIRD} |->
                    CASE d = DOSES.FIRST -> nine
                      [] d = DOSES.SECOND -> twelve
                      [] d = DOSES.THIRD -> fifteen]

\* setup that goes on after the ValueError of an unknown schedule, with no
\* coverage and no age range, and registers its listeners all the same
setup_past_unknown_schedule ==
    /\ phase = "constructed"
    /\ \E sample \in BetaSamples :
          LET resolved == get_dose_coverages(schedule, data, sample)
          IN /\ catchup_proportion' = sample
             /\ phase' = "ready"
             /\ coverage' = resolved.dose_coverage
             /\ dose_age_ranges' = IF resolved.raised THEN <<>>
                                   ELSE get_age_ranges(schedule)
    /\ UNCHANGED <<schedule, step_size, data, dose_ages, pop, clock, counts,
                   dose_events, mask_hits, observer_counts>>
    /\ UNCHANGED effect_vars
    /\ UNCHANGED utility_vars

\* setup runs get_dose_coverages first: an unknown schedule ends it there, and
\* nothing is registered; otherwise the tables are built and the listeners
\* registered, and the simulation may start
setup ==
    /\ phase = "constructed"
    /\ \E sample \in BetaSamples :
          LET resolved == get_dose_coverages(schedule, data, sample)
          IN /\ catchup_proportion' = sample
             /\ IF resolved.raised
                THEN /\ phase' = "error"
                     /\ UNCHANGED <<coverage, dose_age_ranges>>
                ELSE /\ phase' = "ready"
                     /\ coverage' = resolved.dose_coverage
                     /\ dose_age_ranges' = get_age_ranges(schedule)
    /\ UNCHANGED <<schedule, step_size, data, dose_ages, pop, clock, counts,
                   dose_events, mask_hits, observer_counts>>
    /\ UNCHANGED effect_vars
    /\ UNCHANGED utility_vars

-----------------------------------------------------------------------------
(* Simulant creation *)

\* sample_ages with the two clip factors swapped: above the window to
\* age_max * 1.01, below it to age_min * 0.99
sample_ages_clipping_outward(ranges, draw) ==
    [d \in DOMAIN ranges |->
        LET age_min == ranges[d][1]
            age_max == ranges[d][2]
            mean_age == (age_min + age_max) \div 2
            age_std_dev == (mean_age - age_min) \div 3
            age_at_dose == mean_age + draw[d] * age_std_dev
        IN IF age_at_dose > age_max THEN (age_max * 101) \div 100
           ELSE IF age_at_dose < age_min THEN (age_min * 99) \div 100
           ELSE age_at_dose]

\* ages[dose] for one simulant; draw[dose] is the quantile, in standard
\* deviations, of that dose's uniform draw
sample_ages(ranges, draw) ==
    [d \in DOMAIN ranges |->
        LET age_min == ranges[d][1]
            age_max == ranges[d][2]
            mean_age == (age_min + age_max) \div 2
            age_std_dev == (mean_age - age_min) \div 3
            age_at_dose == mean_age + draw[d] * age_std_dev
        IN IF age_at_dose > age_max THEN (age_max * 99) \div 100
           ELSE IF age_at_dose < age_min THEN (age_min * 101) \div 100
           ELSE age_at_dose]

\* the kernel creates one simulant (initial population or birth) and the
\* component's initializer appends its target ages and its three columns
on_initialize_simulants ==
    /\ phase = "ready"
    /\ Len(pop) < MaxSimulants
    /\ \E age \in EntryAges, draw \in AgeDraws :
          /\ dose_ages' = Append(dose_ages, sample_ages(dose_age_ranges, draw))
          /\ pop' = Append(pop, [age |-> to_years(age),
                                 alive |-> "alive",
                                 vaccine_dose |-> DOSES.NONE,
                                 vaccine_dose_count |-> 0,
                                 vaccine_event_time |-> NaT])
    /\ dose_events' = Append(dose_events, <<>>)
    /\ mask_hits' = Append(mask_hits, [d \in DOMAIN dose_age_ranges |-> 0])
    /\ UNCHANGED <<phase, schedule, step_size, data, catchup_proportion, coverage,
                   dose_age_ranges, clock, counts, observer_counts>>
    /\ UNCHANGED effect_vars
    /\ UNCHANGED utility_vars


-----------------------------------------------------------------------------
(* ShigellaCoverage.on_time_step and what it calls *)

\* the year whose row the coverage lookup table returns at the clock time; the
\* run starts 180 days before the turn of the year
YearOf(t) == IF t < 180 THEN 2025 ELSE 2026

\* one dose's lookup table evaluated at the clock time
coverage_at(d) == coverage[d][YearOf(clock)]

\* the randomness stream's filter: a simulant is kept iff its uniform draw
\* for this key is below its probability
filter_for_probability(index, probability, draws, additional_key) ==
    {i \in index : Less(draws[i][additional_key], probability)}

\* dose_age_mask with the lower end of the window closed as well
dose_age_mask_inclusive(p, d, step) ==
    [i \in DOMAIN p |->
        LET dose_age == dose_ages[i][d]
        IN p[i].age <= dose_age /\ dose_age <= p[i].age + to_years(step)]

\* dose_age_mask without the lower bound: true for every target age not
\* beyond the end of the step
dose_age_mask_no_lower_bound(p, d, step) ==
    [i \in DOMAIN p |->
        LET dose_age == dose_ages[i][d]
        IN dose_age <= p[i].age + to_years(step)]

dose_age_mask(p, d, step) ==
    [i \in DOMAIN p |->
        LET dose_age == dose_ages[i][d]
        IN p[i].age < dose_age /\ dose_age <= p[i].age + to_years(step)]

\* dose with the count stepping the wrong way
dose_decrementing(f, d, prior_dose, age_mask, event_time, draws) ==
    LET dose_eligible == {i \in DOMAIN f.pop :
                              f.pop[i].vaccine_dose = prior_dose /\ age_mask[i]}
        received_dose == filter_for_probability(dose_eligible, coverage_at(d), draws, d)
    IN [pop |-> [i \in DOMAIN f.pop |->
                    IF i \in received_dose
                    THEN [f.pop[i] EXCEPT !.vaccine_dose = d,
                                          !.vaccine_dose_count = @ - 1,
                                          !.vaccine_event_time = event_time]
                    ELSE f.pop[i]],
        counts |-> [f.counts EXCEPT ![d] = Cardinality(dose_eligible)],
        events |-> [i \in DOMAIN f.events |->
                       IF i \in received_dose
                       THEN Append(f.events[i], [from |-> f.pop[i].vaccine_dose, to |-> d])
                       ELSE f.events[i]]]

\* dose without the prior-state condition: everyone inside the age mask is eligible
dose_ignoring_prior(f, d, prior_dose, age_mask, event_time, draws) ==
    LET dose_eligible == {i \in DOMAIN f.pop : age_mask[i]}
        received_dose == filter_for_probability(dose_eligible, coverage_at(d), draws, d)
    IN [pop |-> [i \in DOMAIN f.pop |->
                    IF i \in received_dose
                    THEN [f.pop[i] EXCEPT !.vaccine_dose = d,
                                          !.vaccine_dose_count = @ + 1,
                                          !.vaccine_event_time = event_time]
                    ELSE f.pop[i]],
        counts |-> [f.counts EXCEPT ![d] = Cardinality(dose_eligible)],
        events |-> [i \in DOMAIN f.events |->
                       IF i \in received_dose
                       THEN Append(f.events[i], [from |-> f.pop[i].vaccine_dose, to |-> d])
                       ELSE f.events[i]]]

\* dose stamping the event time on every eligible simulant, accepted or not
dose_stamping_eligible(f, d, prior_dose, age_mask, event_time, draws) ==
    LET dose_eligible == {i \in DOMAIN f.pop :
                              f.pop[i].vaccine_dose = prior_dose /\ age_mask[i]}
        received_dose == filter_for_probability(dose_eligible, coverage_at(d), draws, d)
    IN [pop |-> [i \in DOMAIN f.pop |->
                    IF i \in received_dose
                    THEN [f.pop[i] EXCEPT !.vaccine_dose = d,
                                          !.vaccine_dose_count = @ + 1,
                                          !.vaccine_event_time = event_time]
                    ELSE IF i \in dose_eligible
                    THEN [f.pop[i] EXCEPT !.vaccine_event_time = event_time]
                    ELSE f.pop[i]],
        counts |-> [f.counts EXCEPT ![d] = Cardinality(dose_eligible)],
        events |-> [i \in DOMAIN f.events |->
                       IF i \in received_dose
                       THEN Append(f.events[i], [from |-> f.pop[i].vaccine_dose, to |-> d])
                       ELSE f.events[i]]]

\* dose that leaves vaccine_event_time as it was
dose_without_event_time(f, d, prior_dose, age_mask, event_time, draws) ==
    LET dose_eligible == {i \in DOMAIN f.pop :
                              f.pop[i].vaccine_dose = prior_dose /\ age_mask[i]}
        dose_coverage == coverage_at(d)
        received_dose == filter_for_probability(dose_eligible, dose_coverage, draws, d)
    IN [pop |-> [i \in DOMAIN f.pop |->
                    IF i \in received_dose
                    THEN [f.pop[i] EXCEPT !.vaccine_dose = d,
                                          !.vaccine_dose_count = @ + 1]
                    ELSE f.pop[i]],
        counts |-> [f.counts EXCEPT ![d] = Cardinality(dose_eligible)],
        events |-> [i \in DOMAIN f.events |->
                       IF i \in received_dose
                       THEN Append(f.events[i], [from |-> f.pop[i].vaccine_dose, to |-> d])
                       ELSE f.events[i]]]

\* f is the working frame of one step: pop, the alive rows being edited;
\* counts, the step's eligible counts; events, the history of dose() hits
dose(f, d, prior_dose, age_mask, event_time, draws) ==
    LET dose_eligible == {i \in DOMAIN f.pop :
                              f.pop[i].vaccine_dose = prior_dose /\ age_mask[i]}
        dose_coverage == coverage_at(d)
        received_dose == filter_for_probability(dose_eligible, dose_coverage, draws, d)
    IN [pop |-> [i \in DOMAIN f.pop |->
                    IF i \in received_dose
                    THEN [f.pop[i] EXCEPT !.vaccine_dose = d,
                                          !.vaccine_dose_count = @ + 1,
                                          !.vaccine_event_time = event_time]
                    ELSE f.pop[i]],
        counts |-> [f.counts EXCEPT ![d] = Cardinality(dose_eligible)],
        events |-> [i \in DOMAIN f.events |->
                       IF i \in received_dose
                       THEN Append(f.events[i], [from |-> f.pop[i].vaccine_dose, to |-> d])
                       ELSE f.events[i]]]

\* lines 75-80
first_doses(f, event, draws) ==
    LET age_eligible == dose_age_mask(f.pop, DOSES.FIRST, event.step_size)
    IN dose(f, DOSES.FIRST, DOSES.NONE, age_eligible, event.time, draws)

\* lines 82-91
\* second_doses with the catch-up offered to those holding the second dose
second_doses_catchup_after_second(f, event, draws) ==
    LET age_eligible == dose_age_mask(f.pop, DOSES.SECOND, event.step_size)
        f1 == dose(f, DOSES.SECOND, DOSES.FIRST, age_eligible, event.time, draws)
    IN dose(f1, DOSES.CATCHUP, DOSES.SECOND, age_eligible, event.time, draws)

\* second_doses that passes over whoever was dosed earlier in the same step
second_doses_not_in_the_same_step(f, event, draws) ==
    LET age_eligible == dose_age_mask(f.pop, DOSES.SECOND, event.step_size)
        not_yet == [i \in DOMAIN f.pop |->
                       age_eligible[i] /\ f.pop[i].vaccine_event_time # event.time]
        f1 == dose(f, DOSES.SECOND, DOSES.FIRST, not_yet, event.time, draws)
    IN dose(f1, DOSES.CATCHUP, DOSES.NONE, not_yet, event.time, draws)

second_doses(f, event, draws) ==
    LET age_eligible == dose_age_mask(f.pop, DOSES.SECOND, event.step_size)
        f1 == dose(f, DOSES.SECOND, DOSES.FIRST, age_eligible, event.time, draws)
    IN dose(f1, DOSES.CATCHUP, DOSES.NONE, age_eligible, event.time, draws)

\* third_doses whose first call repeats the second dose instead of giving the third
third_doses_repeating_second(f, event, draws) ==
    LET age_eligible == dose_age_mask(f.pop, DOSES.THIRD, event.step_size)
        f1 == dose(f, DOSES.SECOND, DOSES.SECOND, age_eligible, event.time, draws)
        f2 == dose(f1, DOSES.LATE_CATCHUP_MISSED_2, DOSES.FIRST,
                   age_eligible, event.time, draws)
        f3 == dose(f2, DOSES.LATE_CATCHUP_MISSED_1, DOSES.CATCHUP,
                   age_eligible, event.time, draws)
    IN dose(f3, DOSES.LATE_CATCHUP_MISSED_1_2, DOSES.NONE,
            age_eligible, event.time, draws)

\* third_doses giving the third dose to those who only had the first
third_doses_third_from_first(f, event, draws) ==
    LET age_eligible == dose_age_mask(f.pop, DOSES.THIRD, event.step_size)
        f1 == dose(f, DOSES.THIRD, DOSES.FIRST, age_eligible, event.time, draws)
        f2 == dose(f1, DOSES.LATE_CATCHUP_MISSED_2, DOSES.FIRST,
                   age_eligible, event.time, draws)
        f3 == dose(f2, DOSES.LATE_CATCHUP_MISSED_1, DOSES.CATCHUP,
                   age_eligible, event.time, draws)
    IN dose(f3, DOSES.LATE_CATCHUP_MISSED_1_2, DOSES.NONE,
            age_eligible, event.time, draws)

\* lines 93-114
third_doses(f, event, draws) ==
    LET age_eligible == dose_age_mask(f.pop, DOSES.THIRD, event.step_size)
        f1 == dose(f, DOSES.THIRD, DOSES.SECOND, age_eligible, event.time, draws)
        f2 == dose(f1, DOSES.LATE_CATCHUP_MISSED_2, DOSES.FIRST,
                   age_eligible, event.time, draws)
        f3 == dose(f2, DOSES.LATE_CATCHUP_MISSED_1, DOSES.CATCHUP,
                   age_eligible, event.time, draws)
    IN dose(f3, DOSES.LATE_CATCHUP_MISSED_1_2, DOSES.NONE,
            age_eligible, event.time, draws)

\* the view read without its alive query
all_rows(table) == [i \in DOMAIN table |-> table[i]]

\* population_view.get(index, query='alive == "alive"')
alive_rows(table) == [i \in {j \in DOMAIN table : table[j].alive = "alive"} |-> table[i]]

\* population_view.update(rows)
update(table, rows) == [i \in DOMAIN table |-> IF i \in DOMAIN rows THEN rows[i] ELSE table[i]]

\* Counter.update: adds the step's counts to the accumulated ones
\* counter_update that also counts the call itself
counter_update_counting_calls(total, step_counts) ==
    [d \in DOMAIN total |-> total[d] + step_counts[d] + 1]

counter_update(total, step_counts) == [d \in DOMAIN total |-> total[d] + step_counts[d]]

\* the masks of the step, for the history mask_hits: the schedule's doses
\* whose age mask was true for a simulant of the working frame
masks_taken(p, event) ==
    [i \in DOMAIN p |-> {d \in DOMAIN dose_age_ranges :
                            dose_age_mask(p, d, event.step_size)[i]}]

\* the whole listener; gives the columns, the counter and the history after it
on_time_step(event, draws) ==
    LET step_counts == [d \in VACCINE_DOSES |-> 0]
    IN IF schedule = SCHEDULES.NONE
       THEN [pop |-> pop, counts |-> counter_update(counts, step_counts),
             events |-> dose_events]
       ELSE LET f0 == [pop |-> alive_rows(pop), counts |-> step_counts,
                       events |-> dose_events]
                f1 == first_doses(f0, event, draws)
                f2 == second_doses(f1, event, draws)
                f3 == IF schedule = SCHEDULES.NINE_TWELVE_FIFTEEN
                      THEN third_doses(f2, event, draws)
                      ELSE f2
            IN [pop |-> update(pop, f3.pop),
                counts |-> counter_update(counts, f3.counts),
                events |-> f3.events]

\* the kernel's part of a step: every living simulant ages by the step
age_simulants(table, step) ==
    [i \in DOMAIN table |->
        IF table[i].alive = "alive"
        THEN [table[i] EXCEPT !.age = @ + to_years(step)]
        ELSE table[i]]

\* components/observer.py, lines 41-58, with the default configuration (no
\* split by age, year or sex): of the rows whose vaccine_event_time is the
\* event time, those holding each dose are counted and added to the counter
on_collect_metrics(table, event_time, total) ==
    [d \in VACCINE_DOSES |->
        total[d] + Cardinality({i \in DOMAIN table :
                                   /\ table[i].vaccine_event_time = event_time
                                   /\ table[i].vaccine_dose = d})]

\* one time step: the kernel emits the time_step event, the listener runs,
\* then collect_metrics with the same event time, the simulants age and the
\* clock advances
time_step ==
    /\ phase = "ready"
    /\ clock < MaxSteps * step_size
    /\ \E draws \in [DOMAIN pop -> DoseDraws] :
          LET event == [time |-> clock + step_size, step_size |-> step_size]
              after == on_time_step(event, draws)
              hit == masks_taken(alive_rows(pop), event)
          IN /\ pop' = age_simulants(after.pop, event.step_size)
             /\ counts' = after.counts
             /\ dose_events' = after.events
             /\ observer_counts' = on_collect_metrics(after.pop, event.time,
                                                      observer_counts)
             /\ mask_hits' = [i \in DOMAIN mask_hits |->
                                 [d \in DOMAIN mask_hits[i] |->
                                     IF schedule # SCHEDULES.NONE /\ i \in DOMAIN hit
                                        /\ d \in hit[i]
                                     THEN mask_hits[i][d] + 1
                                     ELSE mask_hits[i][d]]]
    /\ clock' = clock + step_size
    /\ UNCHANGED <<phase, schedule, step_size, data, catchup_proportion, coverage,
                   dose_age_ranges, dose_ages>>
    /\ UNCHANGED effect_vars
    /\ UNCHANGED utility_vars

\* the kernel's mortality: a living simulant dies
mortality ==
    /\ phase = "ready"
    /\ \E i \in DOMAIN pop :
          /\ pop[i].alive = "alive"
          /\ pop' = [pop EXCEPT ![i].alive = "dead"]
    /\ UNCHANGED <<phase, schedule, step_size, data, catchup_proportion, coverage,
                   dose_age_ranges, dose_ages, clock, counts, dose_events, mask_hits,
                   observer_counts>>
    /\ UNCHANGED effect_vars
    /\ UNCHANGED utility_vars

-----------------------------------------------------------------------------

\* no direct call of sample_beta
UtilitiesUncalled ==
    /\ beta_args = <<>>
    /\ beta_result = [called |-> FALSE, raised |-> FALSE]

\* no call of get_configuration yet
NotCalled == [called |-> FALSE, raised |-> FALSE, config |-> <<>>]

\* ShigellaEffect as constructed, under the default scenario
EffectConstructed ==
    /\ effect_phase = "constructed"
    /\ returned = NotCalled
    /\ effect = <<>>
    /\ beta_calls = <<>>
    /\ doses_for_protection = <<>>
    /\ modified = <<>>

\* the component as constructed, under any configuration and artifact
Init ==
    /\ phase = "constructed"
    /\ schedule \in ScheduleNames
    /\ step_size \in StepSizes
    /\ data \in CoverageData
    /\ catchup_proportion = Rat(0, 1)
    /\ coverage = <<>>
    /\ dose_age_ranges = <<>>
    /\ dose_ages = <<>>
    /\ pop = <<>>
    /\ clock = 0
    /\ counts = [d \in VACCINE_DOSES |-> 0]
    /\ dose_events = <<>>
    /\ mask_hits = <<>>
    /\ observer_counts = [d \in VACCINE_DOSES |-> 0]
    /\ scenario = "reference"
    /\ input_draw_number = 0
    /\ EffectConstructed
    /\ UtilitiesUncalled

Next ==
    \/ setup
    \/ on_initialize_simulants
    \/ time_step
    \/ mortality

Spec == Init /\ [][Next]_vars

-----------------------------------------------------------------------------
(* components/vaccine_effect.py: ShigellaEffect.setup and what it calls *)

SCENARIOS == [BASELINE |-> "baseline", REFERENCE |-> "reference",
              OPTIMISTIC |-> "optimistic",
              SENSITIVITY_DURATION |-> "sensitivity_duration",
              SENSITIVITY_EFFICACY |-> "sensitivity_efficacy",
              SENSITIVITY_WANING |-> "sensitivity_waning"]

\* the scenarios a configuration may name; "pessimistic" is not in SCENARIOS
ScenarioNames == {SCENARIOS.BASELINE, SCENARIOS.REFERENCE, SCENARIOS.OPTIMISTIC,
                  SCENARIOS.SENSITIVITY_DURATION, SCENARIOS.SENSITIVITY_EFFICACY,
                  SCENARIOS.SENSITIVITY_WANING, "pessimistic"}

InputDrawNumbers == {0, 1, 2, 3}

\* values sample_beta may return for the efficacy
EfficacySamples == {Rat(45, 100)}

\* dict.update: the keys of both, the values of the update where it has the key
dict_update(config, changes) ==
    [k \in DOMAIN config \cup DOMAIN changes |->
        IF k \in DOMAIN changes THEN changes[k] ELSE config[k]]

\* get_configuration with sensitivity_duration written under the key the
\* optimistic branch uses
get_configuration_duration_key(name) ==
    LET config == [immunity_duration |-> 720,
                   efficacy |-> [mean |-> Rat(5, 10), sd |-> Rat(1, 10)],
                   single_dose_protected |-> Rat(7, 10),
                   waning_rate |-> Rat(38, 1000),
                   onset_delay |-> 14]
        optimistic_duration == 1460
        optimistic_efficacy == [mean |-> Rat(7, 10), sd |-> Rat(15, 100)]
        optimistic_waning == Rat(134, 10000)
    IN IF name = SCENARIOS.REFERENCE
       THEN [called |-> TRUE, raised |-> FALSE, config |-> dict_update(config, <<>>)]
       ELSE IF name = SCENARIOS.OPTIMISTIC
       THEN [called |-> TRUE, raised |-> FALSE,
             config |-> dict_update(config, [duration |-> optimistic_duration,
                                             efficacy |-> optimistic_efficacy,
                                             waning_rate |-> optimistic_waning])]
       ELSE IF name = SCENARIOS.SENSITIVITY_DURATION
       THEN [called |-> TRUE, raised |-> FALSE,
             config |-> dict_update(config, [duration |-> optimistic_duration])]
       ELSE IF name = SCENARIOS.SENSITIVITY_EFFICACY
       THEN [called |-> TRUE, raised |-> FALSE,
             config |-> dict_update(config, [efficacy |-> optimistic_efficacy])]
       ELSE IF name = SCENARIOS.SENSITIVITY_WANING
       THEN [called |-> TRUE, raised |-> FALSE,
             config |-> dict_update(config, [waning_rate |-> optimistic_waning])]
       ELSE [called |-> TRUE, raised |-> TRUE, config |-> <<>>]

\* lines 71-107.  raised: the ValueError of the final else; config: the dict
\* returned.  The branches are those of the code: none for "baseline", and the
\* optimistic update under the key 'duration'
get_configuration(name) ==
    LET config == [immunity_duration |-> 720,
                   efficacy |-> [mean |-> Rat(5, 10), sd |-> Rat(1, 10)],
                   single_dose_protected |-> Rat(7, 10),
                   waning_rate |-> Rat(38, 1000),
                   onset_delay |-> 14]
        optimistic_duration == 1460
        optimistic_efficacy == [mean |-> Rat(7, 10), sd |-> Rat(15, 100)]
        optimistic_waning == Rat(134, 10000)
    IN IF name = SCENARIOS.REFERENCE
       THEN [called |-> TRUE, raised |-> FALSE, config |-> dict_update(config, <<>>)]
       ELSE IF name = SCENARIOS.OPTIMISTIC
       THEN [called |-> TRUE, raised |-> FALSE,
             config |-> dict_update(config, [duration |-> optimistic_duration,
                                             efficacy |-> optimistic_efficacy,
                                             waning_rate |-> optimistic_waning])]
       ELSE IF name = SCENARIOS.SENSITIVITY_DURATION
       THEN [called |-> TRUE, raised |-> FALSE,
             config |-> dict_update(config, [immunity_duration |-> optimistic_duration])]
       ELSE IF name = SCENARIOS.SENSITIVITY_EFFICACY
       THEN [called |-> TRUE, raised |-> FALSE,
             config |-> dict_update(config, [efficacy |-> optimistic_efficacy])]
       ELSE IF name = SCENARIOS.SENSITIVITY_WANING
       THEN [called |-> TRUE, raised |-> FALSE,
             config |-> dict_update(config, [waning_rate |-> optimistic_waning])]
       ELSE [called |-> TRUE, raised |-> TRUE, config |-> <<>>]

\* lines 62-69, up to the sample_beta call.  config is the dict setup passes,
\* the whole configuration record; raised: the KeyError of config['mean'] or
\* config['sd'] on a dict without that key; mu, sigma: what sample_beta is
\* called with
sample_efficacy(draw, config) ==
    IF "mean" \in DOMAIN config /\ "sd" \in DOMAIN config
    THEN [raised |-> FALSE, draw |-> draw, mu |-> config["mean"], sigma |-> config["sd"]]
    ELSE [raised |-> TRUE, draw |-> draw, mu |-> Rat(0, 0), sigma |-> Rat(0, 0)]

\* the attributes setup assigns at lines 23-27
effect_attributes(config, efficacy) ==
    [immunity_duration |-> config["immunity_duration"],
     efficacy |-> efficacy,
     single_dose_proportion_protected |-> config["single_dose_protected"],
     waning_rate |-> config["waning_rate"],
     onset_delay |-> config["onset_delay"]]

\* a call of the static method get_configuration with the configured scenario
call_get_configuration ==
    /\ ~returned.called
    /\ returned' = get_configuration(scenario)
    /\ UNCHANGED <<scenario, input_draw_number, effect_phase, effect, beta_calls,
                   doses_for_protection, modified, pop, clock>>
    /\ UNCHANGED coverage_vars
    /\ UNCHANGED utility_vars

\* ShigellaEffect.setup, lines 20-36: an exception of get_configuration or of
\* sample_efficacy ends it before anything is registered, with the attributes
\* assigned by then
effect_setup ==
    /\ effect_phase = "constructed"
    /\ LET got == get_configuration(scenario)
       IN IF got.raised
          THEN /\ effect_phase' = "error"
               /\ UNCHANGED <<effect, beta_calls>>
          ELSE LET drawn == sample_efficacy(input_draw_number, got.config)
               IN IF drawn.raised
                  THEN /\ effect_phase' = "error"
                       /\ effect' = [immunity_duration |-> got.config["immunity_duration"]]
                       /\ UNCHANGED beta_calls
                  ELSE \E sample \in EfficacySamples :
                          /\ effect_phase' = "ready"
                          /\ effect' = effect_attributes(got.config, sample)
                          /\ beta_calls' = Append(beta_calls, [mu |-> drawn.mu,
                                                               sigma |-> drawn.sigma])
    /\ UNCHANGED <<scenario, input_draw_number, returned, doses_for_protection,
                   modified, pop, clock>>
    /\ UNCHANGED coverage_vars
    /\ UNCHANGED utility_vars

\* the coverage component aside: as constructed, under the default schedule
CoverageConstructed ==
    /\ phase = "constructed"
    /\ schedule = SCHEDULES.NONE
    /\ data \in {d \in CoverageData : \A k \in DOMAIN d : d[k][2025] = d[k][2026]}
    /\ catchup_proportion = Rat(0, 1)
    /\ coverage = <<>>
    /\ dose_age_ranges = <<>>
    /\ dose_ages = <<>>
    /\ counts = [d \in VACCINE_DOSES |-> 0]
    /\ dose_events = <<>>
    /\ mask_hits = <<>>
    /\ observer_counts = [d \in VACCINE_DOSES |-> 0]
    /\ UtilitiesUncalled

\* ShigellaEffect as constructed, under any scenario name and draw number
EffectSetupInit ==
    /\ scenario \in ScenarioNames
    /\ input_draw_number \in InputDrawNumbers
    /\ EffectConstructed
    /\ CoverageConstructed
    /\ step_size = 1
    /\ pop = <<>>
    /\ clock = 0

EffectSetupNext ==
    \/ call_get_configuration
    \/ effect_setup

EffectSetupSpec == EffectSetupInit /\ [][EffectSetupNext]_vars

-----------------------------------------------------------------------------
(* components/vaccine_effect.py: the incidence-rate modifier.  A protection
   value is held as [efficacy, decay], standing for efficacy * exp(-decay)
   with decay = waning_rate * days in waning (decay 0: not multiplied); a
   modified rate as [incidence_rate, protection], standing for
   incidence_rate * (1 - protection). *)

\* the raw value of the shigellosis.incidence_rate pipeline
RawRates == {Rat(2, 100)}

\* the clock times looked at; a dose of the step that starts at 0 carries the
\* event time 1, so these are -1, 0, 5, 10, 14, 15, 734, 735, 1474 and 1475
\* days after it
ProtectionDays == {0, 1, 6, 11, 15, 16, 735, 736, 1475, 1476}

NoProtection == [efficacy |-> Rat(0, 1), decay |-> Rat(0, 1)]

\* lines 38-43, for one new simulant: two doses, or one if the uniform draw
\* of the stream is below single_dose_proportion_protected
effect_on_initialize_simulants ==
    /\ effect_phase = "ready"
    /\ Len(pop) < MaxSimulants
    /\ \E draw \in {Accept, Reject} :
          doses_for_protection' =
              Append(doses_for_protection,
                     IF Less(draw, effect.single_dose_proportion_protected)
                     THEN 1 ELSE 2)
    /\ pop' = Append(pop, [vaccine_dose_count |-> 0, vaccine_event_time |-> NaT])
    /\ modified' = <<>>
    /\ UNCHANGED <<scenario, input_draw_number, effect_phase, returned, effect,
                   beta_calls, clock>>
    /\ UNCHANGED coverage_vars
    /\ UNCHANGED utility_vars

\* apply_vaccine_protection with the onset delay held against every
\* protected simulant, whatever its dose count
apply_vaccine_protection_delay_for_all(index, incidence_rate) ==
    LET vaccinated(i) == pop[i].vaccine_event_time # NaT
        protected(i) == pop[i].vaccine_dose_count >= doses_for_protection[i]
        time_since_vaccination(i) == clock - pop[i].vaccine_event_time
        time_in_waning(i) == clock - (pop[i].vaccine_event_time + effect.onset_delay
                                      + effect.immunity_duration)
        in_delay(i) == /\ protected(i)
                       /\ vaccinated(i) /\ time_since_vaccination(i) < effect.onset_delay
        in_waning(i) == /\ protected(i)
                        /\ vaccinated(i) /\ time_in_waning(i) > 0
        in_full_protection(i) == protected(i) /\ ~in_delay(i) /\ ~in_waning(i)
        protection(i) ==
            IF in_waning(i)
            THEN [efficacy |-> effect.efficacy,
                  decay |-> Mul(effect.waning_rate, Rat(time_in_waning(i), 1))]
            ELSE IF in_full_protection(i)
            THEN [efficacy |-> effect.efficacy, decay |-> Rat(0, 1)]
            ELSE NoProtection
    IN [i \in index |-> [incidence_rate |-> incidence_rate[i],
                         protection |-> protection(i)]]

\* apply_vaccine_protection with the waning counted from the end of the
\* immunity duration after the dose, the onset delay left out
apply_vaccine_protection_waning_without_onset(index, incidence_rate) ==
    LET vaccinated(i) == pop[i].vaccine_event_time # NaT
        protected(i) == pop[i].vaccine_dose_count >= doses_for_protection[i]
        time_since_vaccination(i) == clock - pop[i].vaccine_event_time
        time_in_waning(i) == clock - (pop[i].vaccine_event_time
                                      + effect.immunity_duration)
        in_delay(i) == /\ protected(i)
                       /\ pop[i].vaccine_dose_count = 1
                       /\ vaccinated(i) /\ time_since_vaccination(i) < effect.onset_delay
        in_waning(i) == /\ protected(i)
                        /\ vaccinated(i) /\ time_in_waning(i) > 0
        in_full_protection(i) == protected(i) /\ ~in_delay(i) /\ ~in_waning(i)
        protection(i) ==
            IF in_waning(i)
            THEN [efficacy |-> effect.efficacy,
                  decay |-> Mul(effect.waning_rate, Rat(time_in_waning(i), 1))]
            ELSE IF in_full_protection(i)
            THEN [efficacy |-> effect.efficacy, decay |-> Rat(0, 1)]
            ELSE NoProtection
    IN [i \in index |-> [incidence_rate |-> incidence_rate[i],
                         protection |-> protection(i)]]

\* apply_vaccine_protection with every vaccinated simulant taken as protected
apply_vaccine_protection_from_any_dose(index, incidence_rate) ==
    LET vaccinated(i) == pop[i].vaccine_event_time # NaT
        protected(i) == pop[i].vaccine_dose_count >= 1
        time_since_vaccination(i) == clock - pop[i].vaccine_event_time
        time_in_waning(i) == clock - (pop[i].vaccine_event_time + effect.onset_delay
                                      + effect.immunity_duration)
        in_delay(i) == /\ protected(i)
                       /\ pop[i].vaccine_dose_count = 1
                       /\ vaccinated(i) /\ time_since_vaccination(i) < effect.onset_delay
        in_waning(i) == /\ protected(i)
                        /\ vaccinated(i) /\ time_in_waning(i) > 0
        in_full_protection(i) == protected(i) /\ ~in_delay(i) /\ ~in_waning(i)
        protection(i) ==
            IF in_waning(i)
            THEN [efficacy |-> effect.efficacy,
                  decay |-> Mul(effect.waning_rate, Rat(time_in_waning(i), 1))]
            ELSE IF in_full_protection(i)
            THEN [efficacy |-> effect.efficacy, decay |-> Rat(0, 1)]
            ELSE NoProtection
    IN [i \in index |-> [incidence_rate |-> incidence_rate[i],
                         protection |-> protection(i)]]

\* lines 48-56 with in_waning taken from the time since the dose, the onset
\* delay and the immunity duration left out
protection_masks_waning_from_dose(i) ==
    LET vaccinated == pop[i].vaccine_event_time # NaT
        protected == pop[i].vaccine_dose_count >= doses_for_protection[i]
        time_since_vaccination == clock - pop[i].vaccine_event_time
        in_delay == /\ protected
                    /\ pop[i].vaccine_dose_count = 1
                    /\ vaccinated /\ time_since_vaccination < effect.onset_delay
        in_waning == /\ protected
                     /\ vaccinated /\ time_since_vaccination > 0
    IN [protected |-> protected,
        in_delay |-> in_delay,
        in_waning |-> in_waning,
        in_full_protection |-> protected /\ ~in_delay /\ ~in_waning,
        time_in_waning |-> time_since_vaccination]

\* lines 48-56, for one simulant of the index: the boolean masks the
\* modifier computes from the two columns of its view, the clock and
\* doses_for_protection.  A comparison with a time computed from NaT is
\* false (vaccinated)
protection_masks(i) ==
    LET vaccinated == pop[i].vaccine_event_time # NaT
        protected == pop[i].vaccine_dose_count >= doses_for_protection[i]
        time_since_vaccination == clock - pop[i].vaccine_event_time
        time_in_waning == clock - (pop[i].vaccine_event_time + effect.onset_delay
                                   + effect.immunity_duration)
        in_delay == /\ protected
                    /\ pop[i].vaccine_dose_count = 1
                    /\ vaccinated /\ time_since_vaccination < effect.onset_delay
        in_waning == /\ protected
                     /\ vaccinated /\ time_in_waning > 0
    IN [protected |-> protected,
        in_delay |-> in_delay,
        in_waning |-> in_waning,
        in_full_protection |-> protected /\ ~in_delay /\ ~in_waning,
        time_in_waning |-> time_in_waning]

\* lines 45-60: protection starts at 0, is set to the efficacy for the
\* fully protected and the waning, and is multiplied by
\* exp(-waning_rate * days in waning) for the waning
apply_vaccine_protection(index, incidence_rate) ==
    LET protection(i) ==
            IF protection_masks(i).in_waning
            THEN [efficacy |-> effect.efficacy,
                  decay |-> Mul(effect.waning_rate,
                                Rat(protection_masks(i).time_in_waning, 1))]
            ELSE IF protection_masks(i).in_full_protection
            THEN [efficacy |-> effect.efficacy, decay |-> Rat(0, 1)]
            ELSE NoProtection
    IN [i \in index |-> [incidence_rate |-> incidence_rate[i],
                         protection |-> protection(i)]]

\* the shigellosis.incidence_rate pipeline is evaluated for the population:
\* the modifier is called with the raw rate; it reads the two columns of its
\* view and writes nothing
incidence_rate ==
    /\ effect_phase = "ready"
    /\ pop # <<>>
    /\ modified = <<>>
    /\ \E raw \in RawRates :
          modified' = apply_vaccine_protection(DOMAIN pop, [i \in DOMAIN pop |-> raw])
    /\ UNCHANGED <<scenario, input_draw_number, effect_phase, returned, effect,
                   beta_calls, doses_for_protection, pop, clock>>
    /\ UNCHANGED coverage_vars
    /\ UNCHANGED utility_vars

\* the most doses a schedule gives: one per age window of 9_12_15
MostDoses == Cardinality(DOMAIN get_age_ranges(SCHEDULES.NINE_TWELVE_FIFTEEN))

\* ShigellaCoverage.dose, lines 145-147, seen from the effect component: a
\* simulant's count goes up by one and its event time becomes the event time
\* of the step, clock + step_size
dose_given ==
    /\ effect_phase = "ready"
    /\ \E i \in DOMAIN pop :
          /\ pop[i].vaccine_dose_count < MostDoses
          /\ pop' = [pop EXCEPT ![i].vaccine_dose_count = @ + 1,
                                ![i].vaccine_event_time = clock + step_size]
    /\ modified' = <<>>
    /\ UNCHANGED <<scenario, input_draw_number, effect_phase, returned, effect,
                   beta_calls, doses_for_protection, clock>>
    /\ UNCHANGED coverage_vars
    /\ UNCHANGED utility_vars

\* the clock moves on to the next of the times looked at
clock_advances ==
    /\ effect_phase = "ready"
    /\ \E day \in ProtectionDays :
          /\ day > clock
          /\ \A other \in ProtectionDays : other > clock => day <= other
          /\ clock' = day
    /\ modified' = <<>>
    /\ UNCHANGED <<scenario, input_draw_number, effect_phase, returned, effect,
                   beta_calls, doses_for_protection, pop>>
    /\ UNCHANGED coverage_vars
    /\ UNCHANGED utility_vars

\* the effect component with the attributes setup is written to assign for a
\* scenario get_configuration accepts and an efficacy sample, before the
\* first simulant
ProtectionInit ==
    /\ scenario \in {name \in ScenarioNames : ~get_configuration(name).raised}
    /\ input_draw_number = 0
    /\ effect_phase = "ready"
    /\ returned = NotCalled
    /\ \E sample \in EfficacySamples :
          /\ effect = effect_attributes(get_configuration(scenario).config, sample)
          /\ beta_calls = <<[mu |-> get_configuration(scenario).config["efficacy"]["mean"],
                             sigma |-> get_configuration(scenario).config["efficacy"]["sd"]]>>
    /\ doses_for_protection = <<>>
    /\ modified = <<>>
    /\ CoverageConstructed
    /\ step_size = 1
    /\ pop = <<>>
    /\ clock = 0

ProtectionNext ==
    \/ effect_on_initialize_simulants
    \/ incidence_rate
    \/ dose_given
    \/ clock_advances

ProtectionSpec == ProtectionInit /\ [][ProtectionNext]_vars

-----------------------------------------------------------------------------
(* components/utilities.py: sample_beta called on its own *)

\* means and standard deviations a caller may configure: the catch-up
\* fraction 0.34 / 0.21, the efficacies 0.5 / 0.1 and 0.7 / 0.15, and the
\* standard deviations 0.5, 0.6 and 0 that no Beta distribution of mean 0.5 has
BetaMeans == {Rat(34, 100), Rat(5, 10), Rat(7, 10)}
BetaDeviations == {Rat(21, 100), Rat(1, 10), Rat(15, 100), Rat(5, 10), Rat(6, 10),
                   Rat(0, 1)}
Seeds == {0, 1, 2}

\* values scipy.stats.beta.rvs may return
RvsSamples == BetaSamples \cup EfficacySamples

\* a call sample_beta(seed, mu, sigma)
call_sample_beta ==
    /\ ~beta_result.called
    /\ LET got == sample_beta(beta_args.seed, beta_args.mu, beta_args.sigma)
       IN IF got.raised
          THEN beta_result' = got
          ELSE \E sample \in RvsSamples :
                  beta_result' = [called |-> TRUE, raised |-> FALSE,
                                  alpha |-> got.alpha, beta |-> got.beta,
                                  sample |-> sample]
    /\ UNCHANGED beta_args
    /\ UNCHANGED coverage_vars
    /\ UNCHANGED effect_vars
    /\ UNCHANGED <<pop, clock>>

\* any seed, mean and standard deviation, and no component in play
SampleBetaInit ==
    /\ beta_args \in [seed : Seeds, mu : BetaMeans, sigma : BetaDeviations]
    /\ beta_result = [called |-> FALSE, raised |-> FALSE]
    /\ scenario = "reference"
    /\ input_draw_number = 0
    /\ EffectConstructed
    /\ phase = "constructed"
    /\ schedule = SCHEDULES.NONE
    /\ data \in {d \in CoverageData : \A k \in DOMAIN d : d[k][2025] = d[k][2026]}
    /\ catchup_proportion = Rat(0, 1)
    /\ coverage = <<>>
    /\ dose_age_ranges = <<>>
    /\ dose_ages = <<>>
    /\ counts = [d \in VACCINE_DOSES |-> 0]
    /\ dose_events = <<>>
    /\ mask_hits = <<>>
    /\ observer_counts = [d \in VACCINE_DOSES |-> 0]
    /\ step_size = 1
    /\ pop = <<>>
    /\ clock = 0

SampleBetaNext == call_sample_beta

SampleBetaSpec == SampleBetaInit /\ [][SampleBetaNext]_vars


-----------------------------------------------------------------------------
(* Properties *)

Simulants == DOMAIN pop

\* the dose categories a simulant has received, in order
Received(i) == [k \in DOMAIN dose_events[i] |-> dose_events[i][k].to]

\* every dose() hit of the run, of any simulant
AllEvents == UNION {{dose_events[i][k] : k \in DOMAIN dose_events[i]} : i \in Simulants}

\* the three columns the component owns
SameVaccineColumns(a, b) ==
    /\ a.vaccine_dose = b.vaccine_dose
    /\ a.vaccine_dose_count = b.vaccine_dose_count
    /\ a.vaccine_event_time = b.vaccine_event_time

\* C1: for every individual, vaccine_dose_count never decreases from one step
\* to the next, whatever the schedule, the coverage values and the draws.
C1_DoseCountNeverDecreases ==
    [][\A i \in Simulants :
          pop'[i].vaccine_dose_count >= pop[i].vaccine_dose_count]_vars

\* a simulant whose count has risen twice
C1_Witness == \E i \in Simulants : pop[i].vaccine_dose_count >= 2

\* C2: over a whole run each dose category is applied to a given individual
\* at most once: no individual receives the same category in two dose() calls.
C2_EachDoseAtMostOnce ==
    \A i \in Simulants : \A k, l \in DOMAIN dose_events[i] :
        Received(i)[k] = Received(i)[l] => k = l

\* a simulant that went through three dose() calls
C2_Witness == \E i \in Simulants : Len(dose_events[i]) = 3

\* C3, as claimed: in schedule 9_12_15 third and late_catchup_missed_2 are
\* given only from state second, late_catchup_missed_1 only from catchup and
\* late_catchup_missed_1_2 only from none.
C3_LateDosesAsClaimed ==
    schedule = SCHEDULES.NINE_TWELVE_FIFTEEN =>
        \A e \in AllEvents :
            /\ e.to \in {DOSES.THIRD, DOSES.LATE_CATCHUP_MISSED_2} => e.from = DOSES.SECOND
            /\ e.to = DOSES.LATE_CATCHUP_MISSED_1 => e.from = DOSES.CATCHUP
            /\ e.to = DOSES.LATE_CATCHUP_MISSED_1_2 => e.from = DOSES.NONE

\* C3, amended: in schedule 9_12_15 third is given only from state second,
\* late_catchup_missed_2 only from state first (got first, missed second),
\* late_catchup_missed_1 only from catchup and late_catchup_missed_1_2 only
\* from none.
C3_LateDosesFromTheirPriorState ==
    schedule = SCHEDULES.NINE_TWELVE_FIFTEEN =>
        \A e \in AllEvents :
            /\ e.to = DOSES.THIRD => e.from = DOSES.SECOND
            /\ e.to = DOSES.LATE_CATCHUP_MISSED_2 => e.from = DOSES.FIRST
            /\ e.to = DOSES.LATE_CATCHUP_MISSED_1 => e.from = DOSES.CATCHUP
            /\ e.to = DOSES.LATE_CATCHUP_MISSED_1_2 => e.from = DOSES.NONE

\* a simulant that got the first dose, missed the second and got the late catch-up
C3_Witness ==
    /\ schedule = SCHEDULES.NINE_TWELVE_FIFTEEN
    /\ \E i \in Simulants :
          /\ pop[i].vaccine_dose = DOSES.LATE_CATCHUP_MISSED_2
          /\ Received(i) = <<DOSES.FIRST, DOSES.LATE_CATCHUP_MISSED_2>>

\* C4: in every schedule first is given only from state none, second only
\* from state first and catchup only from state none; an individual who
\* received first is never given catchup.
C4_EarlyDosesFromTheirPriorState ==
    /\ \A e \in AllEvents :
          /\ e.to = DOSES.FIRST => e.from = DOSES.NONE
          /\ e.to = DOSES.SECOND => e.from = DOSES.FIRST
          /\ e.to = DOSES.CATCHUP => e.from = DOSES.NONE
    /\ \A i \in Simulants : \A k, l \in DOMAIN dose_events[i] :
          ~(Received(i)[k] = DOSES.FIRST /\ Received(i)[l] = DOSES.CATCHUP)

\* a simulant inside the second-dose window that holds the first dose and was
\* passed over by second and by catchup in a step that ran since
C4_Witness ==
    \E i \in Simulants :
        /\ Received(i) = <<DOSES.FIRST>>
        /\ pop[i].alive = "alive"
        /\ mask_hits[i][DOSES.SECOND] = 1

\* the dose() calls of the listener under a schedule: the dose, the prior
\* state, and the dose whose age mask the call is given
DoseCalls ==
    {[dose |-> DOSES.FIRST, prior |-> DOSES.NONE, mask |-> DOSES.FIRST],
     [dose |-> DOSES.SECOND, prior |-> DOSES.FIRST, mask |-> DOSES.SECOND],
     [dose |-> DOSES.CATCHUP, prior |-> DOSES.NONE, mask |-> DOSES.SECOND]}
    \cup (IF schedule = SCHEDULES.NINE_TWELVE_FIFTEEN
          THEN {[dose |-> DOSES.THIRD, prior |-> DOSES.SECOND, mask |-> DOSES.THIRD],
                [dose |-> DOSES.LATE_CATCHUP_MISSED_2, prior |-> DOSES.FIRST,
                 mask |-> DOSES.THIRD],
                [dose |-> DOSES.LATE_CATCHUP_MISSED_1, prior |-> DOSES.CATCHUP,
                 mask |-> DOSES.THIRD],
                [dose |-> DOSES.LATE_CATCHUP_MISSED_1_2, prior |-> DOSES.NONE,
                 mask |-> DOSES.THIRD]}
          ELSE {})

\* the simulant is in the prior state, inside the age window of this step, and
\* its draw is below the coverage of the dose
AcceptedBy(call, row, i, draw) ==
    /\ row.vaccine_dose = call.prior
    /\ row.age < dose_ages[i][call.mask]
    /\ dose_ages[i][call.mask] <= row.age + to_years(step_size)
    /\ Less(draw, coverage[call.dose][YearOf(clock)])

\* C5: a dose() transition for (dose, prior_dose) changes exactly the accepted
\* individuals: each gets vaccine_dose = dose, vaccine_dose_count + 1 and
\* vaccine_event_time = the step's event time, all three together; everyone
\* not in state prior_dose, outside the age mask or not accepted by the
\* coverage draw keeps all its columns.
C5_DoseChangesExactlyTheAccepted ==
    (phase = "ready" /\ schedule # SCHEDULES.NONE) =>
    \A call \in DoseCalls : \A u \in [Simulants -> {Accept, Reject}] :
        LET rows == alive_rows(pop)
            event_time == clock + step_size
            before == [pop |-> rows, counts |-> [d \in VACCINE_DOSES |-> 0],
                       events |-> dose_events]
            after == dose(before, call.dose, call.prior,
                          dose_age_mask(rows, call.mask, step_size), event_time,
                          [i \in Simulants |-> StageDraws(u[i], u[i], u[i])])
        IN /\ DOMAIN after.pop = DOMAIN rows
           /\ \A i \in DOMAIN rows :
                 IF AcceptedBy(call, rows[i], i, u[i])
                 THEN after.pop[i] = [rows[i] EXCEPT
                                         !.vaccine_dose = call.dose,
                                         !.vaccine_dose_count = rows[i].vaccine_dose_count + 1,
                                         !.vaccine_event_time = event_time]
                 ELSE after.pop[i] = rows[i]

\* a simulant dosed by the step that just ran and, in the state that dose
\* left it in, due for the next dose() call
C5_Witness ==
    \E i \in Simulants :
        /\ pop[i].vaccine_dose = DOSES.FIRST
        /\ pop[i].vaccine_dose_count = 1
        /\ pop[i].vaccine_event_time = clock
        /\ AcceptedBy([dose |-> DOSES.SECOND, prior |-> DOSES.FIRST,
                       mask |-> DOSES.SECOND], pop[i], i, Accept)

\* C6: only alive individuals are dosed: in every step a dead individual
\* keeps vaccine_dose, vaccine_dose_count and vaccine_event_time, whatever its
\* age, target ages and draws.
C6_DeadKeepTheirColumns ==
    [][\A i \in Simulants :
          pop[i].alive = "dead" => SameVaccineColumns(pop'[i], pop[i])]_vars

\* a simulant that got the first dose in the first step, died before the
\* second step at the age that step left it, and lay inside the second-dose
\* window while the second step ran
C6_Witness ==
    \E i \in Simulants :
        /\ pop[i].alive = "dead"
        /\ pop[i].vaccine_dose = DOSES.FIRST
        /\ pop[i].vaccine_event_time = step_size
        /\ clock = 2 * step_size
        /\ pop[i].age < dose_ages[i][DOSES.SECOND]
        /\ dose_ages[i][DOSES.SECOND] <= pop[i].age + to_years(step_size)

\* C7: an individual is eligible for a dose in a step iff
\* age < dose_target_age <= age + step (a target equal to the current age is
\* not eligible, one equal to age + step is); so, with the age advancing by
\* the step size each step, the mask of an (individual, dose) is true in at
\* most one step of the run and never again once the age has reached the target.
C7_EligibleInExactlyTheStraddlingStep ==
    /\ [](\A i \in Simulants : \A d \in DOMAIN mask_hits[i] : mask_hits[i][d] <= 1)
    /\ [][clock' # clock =>
            \A i \in Simulants : \A d \in DOMAIN mask_hits[i] :
                pop[i].alive = "alive" =>
                    /\ (mask_hits'[i][d] = mask_hits[i][d] + 1) <=>
                           (pop[i].age < dose_ages[i][d] /\ dose_ages[i][d] <= pop'[i].age)
                    /\ (mask_hits'[i][d] = mask_hits[i][d]) <=>
                           ~(pop[i].age < dose_ages[i][d] /\ dose_ages[i][d] <= pop'[i].age)
                    /\ pop[i].age >= dose_ages[i][d] => mask_hits'[i][d] = mask_hits[i][d]]_vars

\* a living simulant whose first-dose target was the age at the end of one
\* step (eligible then) and so the age at the start of the next (not eligible)
C7_Witness ==
    \E i \in Simulants :
        /\ pop[i].alive = "alive"
        /\ DOSES.FIRST \in DOMAIN mask_hits[i]
        /\ mask_hits[i][DOSES.FIRST] = 1
        /\ pop[i].age = dose_ages[i][DOSES.FIRST] + to_years(step_size)

\* C8, as claimed: in schedule 9_12_15 the resolved third-dose coverage of
\* each year is coverage[15] / (coverage[12] / coverage[9]).
C8_ThirdOverConditionalSecond ==
    (phase = "ready" /\ schedule = SCHEDULES.NINE_TWELVE_FIFTEEN) =>
        \A y \in Years :
            Same(coverage[DOSES.THIRD][y],
                 Div(data["15mo"][y], Div(data["12mo"][y], data["9mo"][y])))

\* C8, amended: in schedule 9_12_15 the resolved third-dose coverage of each
\* year is coverage[15] / coverage[12], the 15-month covariate divided by the
\* 12-month covariate (not by the conditional second-dose probability).
C8_ThirdOverTwelveMonthCoverage ==
    (phase = "ready" /\ schedule = SCHEDULES.NINE_TWELVE_FIFTEEN) =>
        \A y \in Years :
            Same(coverage[DOSES.THIRD][y], Div(data["15mo"][y], data["12mo"][y]))

\* setup done for 9_12_15 on covariates 0.6, 0.4, 0.3: third-dose coverage 3/4
C8_Witness ==
    /\ phase = "ready"
    /\ schedule = SCHEDULES.NINE_TWELVE_FIFTEEN
    /\ \E y \in Years :
          /\ Same(data["9mo"][y], Rat(6, 10))
          /\ Same(data["12mo"][y], Rat(4, 10))
          /\ Same(data["15mo"][y], Rat(3, 10))
          /\ Same(coverage[DOSES.THIRD][y], Rat(3, 4))

\* C9: in schedule 9_12, for every year the resolved first-dose coverage is
\* coverage[9] and the resolved second-dose coverage is
\* coverage[12] / coverage[9] (0.6 and 0.4 give first 0.6 and second 2/3).
C9_NineTwelveComposition ==
    (phase = "ready" /\ schedule = SCHEDULES.NINE_TWELVE) =>
        \A y \in Years :
            /\ coverage[DOSES.FIRST][y] = data["9mo"][y]
            /\ Same(coverage[DOSES.SECOND][y], Div(data["12mo"][y], data["9mo"][y]))
            /\ (Same(data["9mo"][y], Rat(6, 10)) /\ Same(data["12mo"][y], Rat(4, 10))) =>
                   /\ Same(coverage[DOSES.FIRST][y], Rat(6, 10))
                   /\ Same(coverage[DOSES.SECOND][y], Rat(2, 3))

\* setup done for 9_12 on the covariates 0.6 and 0.4
C9_Witness ==
    /\ phase = "ready"
    /\ schedule = SCHEDULES.NINE_TWELVE
    /\ \E y \in Years :
          /\ Same(data["9mo"][y], Rat(6, 10))
          /\ Same(data["12mo"][y], Rat(4, 10))
          /\ Same(coverage[DOSES.SECOND][y], Rat(2, 3))

\* C10: setup with a schedule whose resolved dose-coverage series holds a
\* value outside [0,1] fails before any time step runs: the component is never
\* ready with such a value in its coverage tables.
C10_OutOfRangeCoverageFailsSetup ==
    phase = "ready" =>
        \A d \in DOMAIN coverage : \A y \in Years : InUnitInterval(coverage[d][y])

\* the artifact's covariates are what load_and_write_vaccine_data writes for
\* some dtp3, measles1 and measles2 coverages in (0,1]
WrittenByBuilder ==
    \E dtp3, measles1, measles2 \in CovariateValues :
        \A k \in COVARIATE_SHIGELLA_COVERAGES : \A y \in Years :
            Same(data[k][y], load_and_write_vaccine_data(dtp3, measles1, measles2)[k][y])

\* C11: whenever setup completes on the covariates load_and_write_vaccine_data
\* writes (6mo = 0.5*dtp3*measles1, 9mo = measles1, 12mo = 0.5*measles1*measles2,
\* 15mo = measles2, for dtp3, measles1, measles2 in (0,1]), every resolved
\* coverage of every dose of the schedule lies in [0,1] in every year.
C11_BuilderCoveragesAreProbabilities ==
    (phase = "ready" /\ WrittenByBuilder) =>
        \A d \in CoverageDoses(schedule) : \A y \in Years :
            /\ d \in DOMAIN coverage
            /\ InUnitInterval(coverage[d][y])

\* the catch-up family of a schedule
CatchupFamily(sched) ==
    CASE sched = SCHEDULES.NINE_TWELVE -> {DOSES.CATCHUP}
      [] sched = SCHEDULES.NINE_TWELVE_FIFTEEN ->
             {DOSES.CATCHUP, DOSES.LATE_CATCHUP_MISSED_1, DOSES.LATE_CATCHUP_MISSED_2,
              DOSES.LATE_CATCHUP_MISSED_1_2}

\* C12: in schedules 9_12 and 9_12_15 every catch-up-family dose of the
\* schedule has, in every year, the coverage catchup_proportion, the scalar
\* sampled at setup; neither the scalar nor the coverage tables change once
\* setup is done.
C12_CatchupFamilyIsTheOneSample ==
    /\ []((phase = "ready"
           /\ schedule \in {SCHEDULES.NINE_TWELVE, SCHEDULES.NINE_TWELVE_FIFTEEN}) =>
              \A d \in CatchupFamily(schedule) : \A y \in Years :
                  /\ d \in DOMAIN coverage
                  /\ coverage[d][y] = catchup_proportion
                  /\ catchup_proportion \in BetaSamples)
    /\ [][phase = "ready" =>
             /\ catchup_proportion' = catchup_proportion
             /\ coverage' = coverage]_vars

\* a simulant that took the late catch-up for both missed doses in a step of
\* the second year of the run
C12_Witness ==
    /\ schedule = SCHEDULES.NINE_TWELVE_FIFTEEN
    /\ YearOf(clock) = 2026
    /\ \E i \in Simulants :
          /\ pop[i].vaccine_dose = DOSES.LATE_CATCHUP_MISSED_1_2
          /\ pop[i].vaccine_event_time = clock

\* C17: with a schedule name outside {none, 6_9, 9_12, 9_12_15} setup ends in
\* an error before anything is registered: the component is never ready, no
\* simulant is initialised and no time step runs.
C17_UnknownScheduleNeverRuns ==
    schedule \notin {SCHEDULES.NONE, SCHEDULES.SIX_NINE, SCHEDULES.NINE_TWELVE,
                     SCHEDULES.NINE_TWELVE_FIFTEEN} =>
        /\ phase \in {"constructed", "error"}
        /\ coverage = <<>> /\ dose_age_ranges = <<>>
        /\ pop = <<>> /\ dose_ages = <<>>
        /\ clock = 0
        /\ \A d \in VACCINE_DOSES : counts[d] = 0

\* setup has run on the unknown schedule "3_6" and failed
C17_Witness ==
    /\ schedule = "3_6"
    /\ phase = "error"

-----------------------------------------------------------------------------
(* Properties of ShigellaEffect.setup and get_configuration, under
   EffectSetupSpec *)

\* the baseline parameter record
BaselineRecord ==
    [immunity_duration |-> 720,
     efficacy |-> [mean |-> Rat(5, 10), sd |-> Rat(1, 10)],
     single_dose_protected |-> Rat(7, 10),
     waning_rate |-> Rat(38, 1000),
     onset_delay |-> 14]

\* ShigellaEffect.setup has run to its end or to an exception
EffectSetupRan == effect_phase # "constructed"

\* C13: the optimistic scenario resolves to a record with immunity duration
\* 1460 (baseline 720), efficacy mean 0.7 and sd 0.15, waning rate 0.0134
\* (baseline 0.038), and single_dose_protected and onset_delay at baseline;
\* the immunity duration setup takes for the protection model is 1460.
C13_OptimisticRecord ==
    scenario = SCENARIOS.OPTIMISTIC =>
        /\ returned.called =>
              /\ ~returned.raised
              /\ returned.config["immunity_duration"] = 1460
              /\ returned.config["efficacy"] = [mean |-> Rat(7, 10), sd |-> Rat(15, 100)]
              /\ returned.config["waning_rate"] = Rat(134, 10000)
              /\ returned.config["single_dose_protected"] =
                     BaselineRecord["single_dose_protected"]
              /\ returned.config["onset_delay"] = BaselineRecord["onset_delay"]
        /\ EffectSetupRan =>
              /\ "immunity_duration" \in DOMAIN effect
              /\ effect["immunity_duration"] = 1460

\* C14: for every scenario get_configuration accepts, setup completes, having
\* called sample_beta once, with that scenario's efficacy mean and sd, and
\* holds the sample as its efficacy.
C14_SetupDrawsEfficacy ==
    (EffectSetupRan /\ ~get_configuration(scenario).raised) =>
        /\ effect_phase = "ready"
        /\ beta_calls = <<[mu |-> get_configuration(scenario).config["efficacy"]["mean"],
                           sigma |-> get_configuration(scenario).config["efficacy"]["sd"]]>>
        /\ "efficacy" \in DOMAIN effect
        /\ effect["efficacy"] \in EfficacySamples

\* C15: get_configuration raises exactly for the scenario names that are not
\* members of SCENARIOS, and returns a record for every member.
C15_RaisesExactlyOutsideScenarios ==
    returned.called =>
        (returned.raised <=> scenario \notin {SCENARIOS[k] : k \in DOMAIN SCENARIOS})

\* the one key a sensitivity scenario changes, and the value it gets
SensitivityChange(name) ==
    CASE name = SCENARIOS.SENSITIVITY_DURATION ->
             [key |-> "immunity_duration", value |-> 1460]
      [] name = SCENARIOS.SENSITIVITY_EFFICACY ->
             [key |-> "efficacy", value |-> [mean |-> Rat(7, 10), sd |-> Rat(15, 100)]]
      [] name = SCENARIOS.SENSITIVITY_WANING ->
             [key |-> "waning_rate", value |-> Rat(134, 10000)]

\* C16: the record of each sensitivity scenario has the keys of the baseline
\* record and no other, the optimistic value under its one key
\* (sensitivity_duration: immunity_duration 1460; sensitivity_efficacy:
\* efficacy mean 0.7, sd 0.15; sensitivity_waning: waning_rate 0.0134) and the
\* baseline value under every other key.
C16_SensitivityChangesOneKey ==
    (returned.called /\ scenario \in {SCENARIOS.SENSITIVITY_DURATION,
                                      SCENARIOS.SENSITIVITY_EFFICACY,
                                      SCENARIOS.SENSITIVITY_WANING}) =>
        /\ ~returned.raised
        /\ DOMAIN returned.config = DOMAIN BaselineRecord
        /\ \A k \in DOMAIN BaselineRecord :
              IF k = SensitivityChange(scenario).key
              THEN /\ returned.config[k] = SensitivityChange(scenario).value
                   /\ returned.config[k] # BaselineRecord[k]
              ELSE returned.config[k] = BaselineRecord[k]

\* get_configuration has returned the record of sensitivity_duration
C16_Witness ==
    /\ scenario = SCENARIOS.SENSITIVITY_DURATION
    /\ returned.called
    /\ ~returned.raised
    /\ returned.config["immunity_duration"] = 1460

-----------------------------------------------------------------------------
(* Properties of the incidence-rate modifier, under ProtectionSpec *)

\* the modifier's value for the current columns and clock has been computed
Computed == modified # <<>>

Protected(i) == pop[i].vaccine_dose_count >= doses_for_protection[i]

\* days from the last dose to now, for a vaccinated simulant
DaysSinceDose(i) == clock - pop[i].vaccine_event_time

\* the end of full protection: vaccine_event_time + onset_delay + immunity_duration
WaningStart(i) == pop[i].vaccine_event_time + effect.onset_delay + effect.immunity_duration

\* the single-dose recipient still inside the onset delay
InOnsetDelay(i) ==
    /\ Protected(i)
    /\ pop[i].vaccine_dose_count = 1
    /\ DaysSinceDose(i) < effect.onset_delay

\* the protection factor is 0: efficacy * exp(-decay) with efficacy 0
FactorIsZero(i) == modified[i].protection.efficacy.n = 0

\* the protection factor is the efficacy, not decayed
FactorIsEfficacy(i) ==
    /\ modified[i].protection.efficacy = effect.efficacy
    /\ modified[i].protection.decay.n = 0

\* C18: a protected individual has protection factor 0 iff its dose count
\* is 1 and the time since its dose is less than onset_delay.  With count 1,
\* doses_for_protection 1 and onset_delay 14 the factor is 0 on day 5 and the
\* efficacy on day 15; with count 2 it is the efficacy on day 10.
C18_OnsetDelayOnlyForSingleDose ==
    Computed =>
        \A i \in Simulants :
            /\ Protected(i) =>
                  (FactorIsZero(i) <=>
                      (pop[i].vaccine_dose_count = 1
                       /\ DaysSinceDose(i) < effect.onset_delay))
            /\ (pop[i].vaccine_dose_count = 1 /\ doses_for_protection[i] = 1
                /\ effect.onset_delay = 14) =>
                  /\ DaysSinceDose(i) = 5 => FactorIsZero(i)
                  /\ DaysSinceDose(i) = 15 => FactorIsEfficacy(i)
            /\ (pop[i].vaccine_dose_count = 2 /\ DaysSinceDose(i) = 10) =>
                  FactorIsEfficacy(i)

\* a single-dose recipient protected by one dose, five days after it, with
\* factor 0
C18_Witness ==
    /\ Computed
    /\ \E i \in Simulants :
          /\ pop[i].vaccine_dose_count = 1
          /\ doses_for_protection[i] = 1
          /\ DaysSinceDose(i) = 5
          /\ FactorIsZero(i)

\* C19: a protected individual's factor is decayed iff now is strictly later
\* than vaccine_event_time + onset_delay + immunity_duration.  Up to and at
\* that instant, after the delay, the factor is the efficacy; later it is
\* efficacy * exp(-waning_rate * days in waning) with waning_rate > 0 and
\* days in waning = now minus that instant > 0, so a decay factor strictly
\* between 0 and 1 that shrinks with the time in waning (onset 14, duration
\* 720: day 734 undecayed, day 735 decayed by one day).  Out of the delay the
\* factor is never 0 and never above the efficacy.
C19_WaningStrictlyAfterDuration ==
    Computed =>
        \A i \in Simulants : Protected(i) =>
            LET p == modified[i].protection
            IN /\ (p.decay.n > 0) <=> (clock > WaningStart(i))
               /\ (clock <= WaningStart(i) /\ ~InOnsetDelay(i)) => FactorIsEfficacy(i)
               /\ clock > WaningStart(i) =>
                     /\ p.efficacy = effect.efficacy
                     /\ Less(Rat(0, 1), effect.waning_rate)
                     /\ Same(p.decay, Mul(effect.waning_rate,
                                          Rat(clock - WaningStart(i), 1)))
               /\ (effect.onset_delay = 14 /\ effect.immunity_duration = 720) =>
                     /\ DaysSinceDose(i) = 734 => FactorIsEfficacy(i)
                     /\ DaysSinceDose(i) = 735 => Same(p.decay, effect.waning_rate)
               /\ ~InOnsetDelay(i) =>
                     /\ Less(Rat(0, 1), p.efficacy)
                     /\ p.efficacy = effect.efficacy
                     /\ p.decay.n >= 0 /\ p.decay.d > 0

\* a protected simulant on day 735 after its dose, under a 720-day immunity
\* duration, with a decayed factor
C19_Witness ==
    /\ Computed
    /\ effect.immunity_duration = 720
    /\ \E i \in Simulants :
          /\ Protected(i)
          /\ DaysSinceDose(i) = 735
          /\ modified[i].protection.decay.n > 0

\* C20: for every individual with vaccine_dose_count < doses_for_protection,
\* the never-vaccinated with a null event time among them, the modifier
\* returns the raw incidence rate, incidence_rate * (1 - 0), at every clock
\* time; a call of the modifier changes no population column.
C20_UnprotectedKeepTheRawRate ==
    /\ [](Computed =>
            \A i \in Simulants :
                pop[i].vaccine_dose_count < doses_for_protection[i] =>
                    /\ modified[i].incidence_rate \in RawRates
                    /\ modified[i].protection = NoProtection)
    /\ [][(modified' # modified /\ modified' # <<>>) =>
             /\ pop' = pop
             /\ doses_for_protection' = doses_for_protection]_vars

\* a simulant who needs two doses and has one, past the onset delay, and the
\* modifier's value for it
C20_Witness ==
    /\ Computed
    /\ \E i \in Simulants :
          /\ pop[i].vaccine_dose_count = 1
          /\ doses_for_protection[i] = 2
          /\ DaysSinceDose(i) >= effect.onset_delay
          /\ modified[i].protection = NoProtection

-----------------------------------------------------------------------------
(* Properties of sample_beta, under SampleBetaSpec *)

\* sample_beta was called with this mean and standard deviation
CalledWith(mu, sigma) ==
    /\ beta_result.called
    /\ Same(beta_args.mu, mu)
    /\ Same(beta_args.sigma, sigma)

\* the call returned a sample drawn with these shape parameters
ReturnedWith(alpha, beta) ==
    /\ ~beta_result.raised
    /\ Same(beta_result.alpha, alpha) /\ Less(Rat(0, 1), beta_result.alpha)
    /\ Same(beta_result.beta, beta) /\ Less(Rat(0, 1), beta_result.beta)
    /\ beta_result.sample \in RvsSamples

\* C21: sample_beta draws with alpha = mu*(mu*(1-mu)/sigma^2 - 1) and
\* beta = (1-mu)*(mu*(1-mu)/sigma^2 - 1): 10217/7350 and 19833/7350 for the
\* catch-up fraction 0.34 / 0.21, 12 and 12 for the efficacy 0.5 / 0.1, 35/6
\* and 5/2 for the efficacy 0.7 / 0.15, all positive; and whenever
\* sigma^2 >= mu*(1-mu) (0.5 / 0.6, 0.5 / 0.5) the call raises and returns
\* nothing.
C21_SampleBetaParameters ==
    /\ CalledWith(Rat(34, 100), Rat(21, 100)) =>
          ReturnedWith(Rat(10217, 7350), Rat(19833, 7350))
    /\ CalledWith(Rat(5, 10), Rat(1, 10)) => ReturnedWith(Rat(12, 1), Rat(12, 1))
    /\ CalledWith(Rat(7, 10), Rat(15, 100)) => ReturnedWith(Rat(35, 6), Rat(5, 2))
    /\ (/\ beta_result.called
        /\ beta_args.sigma.n # 0
        /\ ~Less(Mul(beta_args.sigma, beta_args.sigma),
                 Mul(beta_args.mu, Sub(Rat(1, 1), beta_args.mu)))) =>
          /\ beta_result.raised
          /\ "sample" \notin DOMAIN beta_result

\* the call with mu = 0.5 and sigma = 0.6 has raised
C21_Witness ==
    /\ CalledWith(Rat(5, 10), Rat(6, 10))
    /\ beta_result.raised

-----------------------------------------------------------------------------
(* Further properties of ShigellaCoverage, under Spec *)

\* the age window of each dose of a schedule, in days
WindowDays(sched) ==
    CASE sched = SCHEDULES.SIX_NINE ->
             [d \in {DOSES.FIRST, DOSES.SECOND} |->
                 IF d = DOSES.FIRST THEN <<180, 270>> ELSE <<270, 300>>]
      [] sched = SCHEDULES.NINE_TWELVE ->
             [d \in {DOSES.FIRST, DOSES.SECOND} |->
                 IF d = DOSES.FIRST THEN <<270, 300>> ELSE <<360, 390>>]
      [] sched = SCHEDULES.NINE_TWELVE_FIFTEEN ->
             [d \in {DOSES.FIRST, DOSES.SECOND, DOSES.THIRD} |->
                 CASE d = DOSES.FIRST -> <<270, 300>>
                   [] d = DOSES.SECOND -> <<360, 390>>
                   [] d = DOSES.THIRD -> <<450, 480>>]
      [] OTHER -> <<>>

CountOfDose(d) ==
    CASE d = DOSES.NONE -> 0
      [] d \in {DOSES.FIRST, DOSES.CATCHUP, DOSES.LATE_CATCHUP_MISSED_1_2} -> 1
      [] d \in {DOSES.SECOND, DOSES.LATE_CATCHUP_MISSED_1,
                DOSES.LATE_CATCHUP_MISSED_2} -> 2
      [] d = DOSES.THIRD -> 3

\* C25: a simulant no dose() call has touched holds (none, 0, null), as it
\* entered; in every state vaccine_dose_count is the count of its
\* vaccine_dose (none 0; first, catchup, late_catchup_missed_1_2 1; second,
\* late_catchup_missed_1, late_catchup_missed_2 2; third 3),
\* vaccine_event_time is null iff vaccine_dose is none, and a simulant that
\* was dosed is never in none again.
C25_CountDeterminedByDose ==
    \A i \in Simulants :
        /\ dose_events[i] = <<>> =>
              /\ pop[i].vaccine_dose = DOSES.NONE
              /\ pop[i].vaccine_dose_count = 0
              /\ pop[i].vaccine_event_time = NaT
        /\ pop[i].vaccine_dose_count = CountOfDose(pop[i].vaccine_dose)
        /\ (pop[i].vaccine_event_time = NaT) <=> (pop[i].vaccine_dose = DOSES.NONE)
        /\ dose_events[i] # <<>> => pop[i].vaccine_dose # DOSES.NONE

\* a simulant that missed the first dose, took the catch-up and then the
\* late catch-up for the missed first dose
C25_Witness ==
    \E i \in Simulants :
        /\ pop[i].vaccine_dose = DOSES.LATE_CATCHUP_MISSED_1
        /\ pop[i].vaccine_dose_count = 2
        /\ Received(i) = <<DOSES.CATCHUP, DOSES.LATE_CATCHUP_MISSED_1>>

\* C26: vaccine_dose_count never exceeds the number of dose windows of the
\* schedule: at most 2 in 6_9 and 9_12, where third and the late catch-ups
\* are never reached, and at most 3 in 9_12_15.
C26_CountWithinTheWindows ==
    \A i \in Simulants :
        /\ pop[i].vaccine_dose_count <= Cardinality(DOMAIN WindowDays(schedule))
        /\ schedule \in {SCHEDULES.SIX_NINE, SCHEDULES.NINE_TWELVE} =>
              /\ pop[i].vaccine_dose_count <= 2
              /\ pop[i].vaccine_dose \in {DOSES.NONE, DOSES.FIRST, DOSES.SECOND,
                                          DOSES.CATCHUP}
        /\ schedule = SCHEDULES.NINE_TWELVE_FIFTEEN => pop[i].vaccine_dose_count <= 3

\* a simulant of schedule 9_12_15 holding the third dose
C26_Witness ==
    /\ schedule = SCHEDULES.NINE_TWELVE_FIFTEEN
    /\ \E i \in Simulants :
          /\ pop[i].vaccine_dose = DOSES.THIRD
          /\ pop[i].vaccine_dose_count = 3

\* C30: with schedule none everyone stays at none / 0 / null for the whole
\* run, so no time step changes a vaccine column, and every accumulated
\* eligible_for_<dose>_dose_count stays 0.
C30_NoScheduleNoDoses ==
    schedule = SCHEDULES.NONE =>
        /\ \A i \in Simulants :
              /\ pop[i].vaccine_dose = DOSES.NONE
              /\ pop[i].vaccine_dose_count = 0
              /\ pop[i].vaccine_event_time = NaT
              /\ dose_events[i] = <<>>
        /\ \A d \in VACCINE_DOSES : counts[d] = 0

\* schedule none, and a living simulant that two time steps have passed over
C30_Witness ==
    /\ schedule = SCHEDULES.NONE
    /\ clock = 2 * step_size
    /\ \E i \in Simulants :
          /\ pop[i].alive = "alive"
          /\ pop[i].age = to_years(195) + to_years(clock)

\* the simulant's draw for the dose is below the dose's coverage of the year
Accepts(draws, i, d) == Less(draws[i][d], coverage_at(d))

\* the target age of the dose falls inside the step that starts now
InsideStep(i, d) ==
    /\ pop[i].age < dose_ages[i][d]
    /\ dose_ages[i][d] <= pop[i].age + to_years(step_size)

\* C24: a living individual in state none whose first-dose and second-dose
\* target ages both fall inside one step (age < first target <= second
\* target <= age + step) and whom both coverage draws accept ends that step
\* in state second with vaccine_dose_count 2; in 9_12_15, if the third
\* target falls inside the step too and the third draw accepts, in state
\* third with count 3.
C24_SeveralDosesInOneStep ==
    (phase = "ready" /\ schedule # SCHEDULES.NONE) =>
    \A v \in DoseDraws :
        LET draws == [i \in Simulants |-> v]
            event == [time |-> clock + step_size, step_size |-> step_size]
            after == on_time_step(event, draws)
        IN \A i \in Simulants :
              (/\ pop[i].alive = "alive"
               /\ pop[i].vaccine_dose = DOSES.NONE
               /\ InsideStep(i, DOSES.FIRST) /\ InsideStep(i, DOSES.SECOND)
               /\ dose_ages[i][DOSES.FIRST] <= dose_ages[i][DOSES.SECOND]
               /\ Accepts(draws, i, DOSES.FIRST)
               /\ Accepts(draws, i, DOSES.SECOND)) =>
                  IF /\ schedule = SCHEDULES.NINE_TWELVE_FIFTEEN
                     /\ InsideStep(i, DOSES.THIRD)
                     /\ Accepts(draws, i, DOSES.THIRD)
                  THEN /\ after.pop[i].vaccine_dose = DOSES.THIRD
                       /\ after.pop[i].vaccine_dose_count = pop[i].vaccine_dose_count + 3
                       /\ after.pop[i].vaccine_event_time = event.time
                  ELSE /\ after.pop[i].vaccine_dose = DOSES.SECOND
                       /\ after.pop[i].vaccine_dose_count = pop[i].vaccine_dose_count + 2
                       /\ after.pop[i].vaccine_event_time = event.time

\* a simulant that went from none to third, count 3, in the first step of
\* the run
C24_Witness ==
    /\ clock = step_size
    /\ \E i \in Simulants :
          /\ Received(i) = <<DOSES.FIRST, DOSES.SECOND, DOSES.THIRD>>
          /\ pop[i].vaccine_dose_count = 3
          /\ pop[i].vaccine_event_time = clock

\* age_max of the last dose window of a schedule, in days
LastAgeMax(sched) ==
    CASE sched = SCHEDULES.SIX_NINE -> 300
      [] sched = SCHEDULES.NINE_TWELVE -> 390
      [] sched = SCHEDULES.NINE_TWELVE_FIFTEEN -> 480

KnownSchedule ==
    schedule \in {SCHEDULES.SIX_NINE, SCHEDULES.NINE_TWELVE, SCHEDULES.NINE_TWELVE_FIFTEEN}

\* C29: once an individual's age at the start of a step is at or above the
\* age_max of the last dose window of the schedule (300 days in 6_9, 390 in
\* 9_12, 480 in 9_12_15), no step changes its vaccine_dose,
\* vaccine_dose_count or vaccine_event_time; an individual that entered
\* older than every window is never vaccinated.
C29_QuiescentPastTheLastWindow ==
    /\ [][KnownSchedule =>
             \A i \in Simulants :
                 pop[i].age >= to_years(LastAgeMax(schedule)) =>
                     SameVaccineColumns(pop'[i], pop[i])]_vars
    /\ [](KnownSchedule =>
             \A i \in Simulants :
                 pop[i].age - to_years(clock) >= to_years(LastAgeMax(schedule)) =>
                     /\ pop[i].vaccine_dose = DOSES.NONE
                     /\ pop[i].vaccine_dose_count = 0
                     /\ pop[i].vaccine_event_time = NaT)

\* a living simulant that entered at 500 days, older than every window, and
\* that two steps of schedule 9_12_15 have passed over
C29_Witness ==
    /\ schedule = SCHEDULES.NINE_TWELVE_FIFTEEN
    /\ clock = 2 * step_size
    /\ \E i \in Simulants :
          /\ pop[i].alive = "alive"
          /\ pop[i].age = to_years(500) + to_years(clock)
          /\ pop[i].vaccine_dose = DOSES.NONE

\* the modifier's mask of the unprotected: the rows its protected mask leaves
\* out
Unprotected(i) == ~protection_masks(i).protected

\* how many of the four phases hold for a simulant
PhasesHeld(i) ==
    Cardinality({name \in {"unprotected", "in_delay", "in_full_protection", "in_waning"} :
                    CASE name = "unprotected" -> Unprotected(i)
                      [] name = "in_delay" -> protection_masks(i).in_delay
                      [] name = "in_full_protection" -> protection_masks(i).in_full_protection
                      [] name = "in_waning" -> protection_masks(i).in_waning})

\* C27: with onset_delay >= 0 and immunity_duration >= 0, whenever the
\* modifier computes a rate each individual is in exactly one of the phases
\* unprotected, in_delay, in_full_protection and in_waning; in_delay and
\* in_waning never hold together, and a protected individual is in one of
\* in_delay, in_full_protection and in_waning.
C27_ExactlyOnePhase ==
    (Computed /\ effect.onset_delay >= 0 /\ effect.immunity_duration >= 0) =>
        \A i \in DOMAIN pop :
            /\ PhasesHeld(i) = 1
            /\ ~(protection_masks(i).in_delay /\ protection_masks(i).in_waning)
            /\ protection_masks(i).protected =>
                   \/ protection_masks(i).in_delay
                   \/ protection_masks(i).in_full_protection
                   \/ protection_masks(i).in_waning

\* a rate was computed for a simulant protected by its single dose on the
\* first day of its waning, one day after onset delay and immunity duration
\* have passed
C27_Witness ==
    /\ Computed
    /\ effect.onset_delay > 0
    /\ \E i \in DOMAIN pop :
          /\ pop[i].vaccine_dose_count = 1
          /\ protection_masks(i).in_waning
          /\ protection_masks(i).time_in_waning = 1
          /\ modified[i].protection.decay.n > 0

\* the sum of f over the finite set S
RECURSIVE SumOver(_, _)
SumOver(S, f) ==
    IF S = {} THEN 0
    ELSE LET x == CHOOSE y \in S : TRUE
         IN f[x] + SumOver(S \ {x}, f)

\* the sum over the dose names of the observer's
\* shigellosis_vaccine_<dose>_dose_count
ObservedDoses == SumOver(VACCINE_DOSES, observer_counts)

\* the sum of vaccine_dose_count over all simulants
GivenDoses ==
    SumOver(DOMAIN pop, [i \in DOMAIN pop |-> pop[i].vaccine_dose_count])

\* C28: after any sequence of time steps, each followed by collect_metrics
\* at the same event time, the sum over all dose names of the observer's
\* dose counts equals the sum of vaccine_dose_count over all individuals:
\* every dose event is counted exactly once.
C28_EveryDoseCountedOnce == ObservedDoses = GivenDoses

====
